---- MODULE Spec2Model ----
(***************************************************************************)
(* The interactive control layer of the Pathfinder demo                    *)
(* (demo/common/src/lib.rs): the DemoApp session, its event dispatcher     *)
(* (handle_events), the frame pipeline (prepare_frame, draw_scene,         *)
(* composite_scene, finish_drawing_frame) and the message expiry timer     *)
(* (emit_message and the threads it spawns).                               *)
(*                                                                         *)
(* The main thread is one process whose position is pc.  The events loop   *)
(* of handle_events is modelled one iteration per step: the window's       *)
(* queue is written by the timer threads only, and the main thread shares  *)
(* nothing else with them, so an event pushed while a batch is being       *)
(* handled is indistinguishable from one pushed just before the batch was  *)
(* collected.                                                              *)
(***************************************************************************)
EXTENDS Integers, Sequences, FiniteSets, TLC

\* ------------------------------------------------------------------ bounds

\* Non-empty posts a session makes at most (the epoch is a u32 in the code).
MaxEpoch == 2
\* Largest accumulated yaw and pitch (in units of one Look delta).
MaxAngle == 1
\* Most eye transforms an external update carries.
MaxEyes == 2
\* Most UI events one batch gathers.
MaxUIEvents == 2
\* Largest yaw and pitch mouselook accumulates, either way (milliradians).
MaxLook == 14
\* Farthest the 3D camera moves along an axis, either way.
MaxPosition == 20
\* Most operations applied to a 2D camera transform since it was built.
MaxOps == 3
\* Largest angle the UI asks a rotation to, either way (quarter turns).
MaxTheta == 3

\* ---------------------------------------------------------------- options

None == <<>>
Some(x) == <<x>>
IsSome(o) == o # <<>>
Unwrap(o) == o[1]

Modes == {"TwoD", "ThreeD", "VR"}
UIVisibility == {"None", "Stats", "All"}

\* window.create_user_event_id(): the id of the expiry events, and an id
\* some other user of the window's event queue owns.
expire_message_event_id == "expire_message"
OtherEventId == "other"

\* WindowSize.backing_scale_factor of the session's window.
backing_scale_factor == 2

\* The constants of the camera controls: angles in milliradians, velocities
\* in thousandths, scale factors in tenths.
MOUSELOOK_ROTATION_SPEED == 7
CAMERA_VELOCITY == 20
CAMERA_SCALE_SPEED_2D == 60
CAMERA_ZOOM_AMOUNT_2D == 1

\* WindowSize: the logical size (windows are square here) and the scale
\* factor of the display; device_size is the size in pixels.
LogicalSizes == {100, 200}
WindowSize(logical_size) ==
    [logical_size |-> logical_size, backing_scale_factor |-> backing_scale_factor]
device_size(window_size) ==
    window_size.logical_size * window_size.backing_scale_factor

\* Mode::view(0), and Window::viewport for the size the session stores: the
\* whole drawable, or its left half for a stereo view.
Mode_view(mode) == IF mode = "VR" THEN "Stereo" ELSE "Mono"
window_viewport(window_size, view) ==
    [x |-> IF view = "Stereo"
           THEN device_size(window_size) \div 2
           ELSE device_size(window_size),
     y |-> device_size(window_size)]

\* The scenes the loader can return: the flags of the features the SVG
\* uses that are unsupported, and the scene's view box (its extent).
Scenes ==
    { [result_flags |-> "", view_box |-> 100],
      [result_flags |-> "filter", view_box |-> 200] }

load_scene(svg_path) == svg_path

\* A path whose file cannot be opened, read or parsed, and whether the
\* unwraps of load_scene succeed on a path (they panic otherwise).
Unreadable == [unreadable |-> TRUE]

load_scene_unwraps(svg_path) == "unreadable" \notin DOMAIN svg_path

get_svg_building_message(built_svg) ==
    IF built_svg.result_flags = ""
    THEN ""
    ELSE "Warning: These features in the SVG are unsupported: "
             \o built_svg.result_flags \o "."

SceneMetadata_new_clipping_view_box(scene) == [view_box |-> scene.view_box]

\* ------------------------------------------------------------------ camera

EyeLists == { [i \in 1..n |-> i] : n \in 0..MaxEyes }

viewport_count(mode) == IF mode = "VR" THEN 2 ELSE 1

\* A vector of the 3D camera (x: left/right, z: forward/back).
Zero == [x |-> 0, z |-> 0]

\* Camera::new: a 2D transform fitted to the view box and the viewport with
\* no operation applied yet, or a 3D camera at rest looking straight on.
Camera_new(mode, view_box, viewport_size) ==
    IF mode = "TwoD"
    THEN [kind |-> "TwoD",
          transform |-> [view_box |-> view_box, viewport |-> viewport_size,
                         ops |-> <<>>]]
    ELSE [kind |-> "ThreeD",
          scene_transform |-> [view_box |-> view_box,
                               viewport |-> viewport_size],
          eye_transforms |-> [i \in 1..viewport_count(mode) |-> i],
          yaw |-> 0, pitch |-> 0, position |-> Zero, velocity |-> Zero]

\* camera::scale_factor_for_view_box.
scale_factor_for_view_box(view_box) == view_box \div 100

\* Transform2DF32: post_translate, post_scale and post_rotate append an
\* operation; rotation() is the angle of the matrix the operations make.
\* Angles of 2D transforms are in quarter turns, points stand for (p, p).
post_translate(transform, by) ==
    [transform EXCEPT !.ops = Append(@, [op |-> "translate", by |-> by])]
post_scale(transform, by) ==
    [transform EXCEPT !.ops = Append(@, [op |-> "scale", by |-> by])]
post_rotate(transform, by) ==
    [transform EXCEPT !.ops = Append(@, [op |-> "rotate", by |-> by])]

\* Cosine and sine of a whole number of quarter turns.
cos(theta) == <<1, 0, -1, 0>>[(theta % 4) + 1]
sin(theta) == <<0, 1, 0, -1>>[(theta % 4) + 1]

\* The matrix of a transform: the fit of the view box to the viewport, then
\* each operation on the left. Entries are numerators over den (scale
\* factors are tenths).
RECURSIVE matrix_of(_, _)
matrix_of(fit, ops) ==
    IF ops = <<>>
    THEN fit
    ELSE LET m == matrix_of(fit, SubSeq(ops, 1, Len(ops) - 1))
             o == ops[Len(ops)]
         IN CASE o.op = "translate" ->
                   [m EXCEPT !.x = @ + o.by * m.den, !.y = @ + o.by * m.den]
              [] o.op = "scale" ->
                   [m11 |-> m.m11 * o.by, m12 |-> m.m12 * o.by,
                    m21 |-> m.m21 * o.by, m22 |-> m.m22 * o.by,
                    x |-> m.x * o.by, y |-> m.y * o.by, den |-> m.den * 10]
              [] o.op = "rotate" ->
                   [m11 |-> cos(o.by) * m.m11 - sin(o.by) * m.m21,
                    m12 |-> cos(o.by) * m.m12 - sin(o.by) * m.m22,
                    m21 |-> sin(o.by) * m.m11 + cos(o.by) * m.m21,
                    m22 |-> sin(o.by) * m.m12 + cos(o.by) * m.m22,
                    x |-> cos(o.by) * m.x - sin(o.by) * m.y,
                    y |-> sin(o.by) * m.x + cos(o.by) * m.y,
                    den |-> m.den]

Transform2D_matrix(transform) ==
    matrix_of([m11 |-> transform.viewport.x, m12 |-> 0,
               m21 |-> 0, m22 |-> transform.viewport.x,
               x |-> 0, y |-> 0, den |-> transform.view_box],
              transform.ops)

\* atan2(y, x) for a vector along an axis, in quarter turns: in (-2, 2].
atan2(y, x) ==
    IF y = 0 THEN (IF x < 0 THEN 2 ELSE 0)
    ELSE IF y > 0 THEN 1 ELSE -1

\* Transform2DF32::rotation.
Transform2D_rotation(transform) ==
    LET m == Transform2D_matrix(transform)
    IN atan2(m.m21, m.m11)

Camera_mode(camera) ==
    IF camera.kind = "TwoD" THEN "TwoD"
    ELSE IF Len(camera.eye_transforms) >= 2 THEN "VR" ELSE "ThreeD"

Camera_is_3d(camera) == camera.kind = "ThreeD"

\* ------------------------------------------------------------------- timer

\* Variant: the epoch is not incremented by a post.
emit_message_same_epoch(ui_message, message_epoch, message) ==
    IF message = ""
    THEN [ui_message |-> ui_message, message_epoch |-> message_epoch,
          spawned |-> None]
    ELSE [ui_message |-> message, message_epoch |-> message_epoch,
          spawned |-> Some(message_epoch)]

\* Variant: an empty message is posted like any other.
emit_message_unguarded(ui_message, message_epoch, message) ==
    [ui_message |-> message, message_epoch |-> message_epoch + 1,
     spawned |-> Some(message_epoch + 1)]

\* emit_message: the message displayed, the epoch, and the epoch the spawned
\* thread captured (None when no thread is spawned).
emit_message(ui_message, message_epoch, message) ==
    IF message = ""
    THEN [ui_message |-> ui_message, message_epoch |-> message_epoch,
          spawned |-> None]
    ELSE LET expected_epoch == message_epoch + 1
         IN [ui_message |-> message, message_epoch |-> expected_epoch,
             spawned |-> Some(expected_epoch)]

\* -------------------------------------------------------------- dispatcher

\* window.viewport(ui.mode.view(0)).size().
viewport_size(a) == window_viewport(a.window_size, Mode_view(a.ui_mode))

\* process_mouse_position: the device-scaled absolute position and its
\* distance from the last known position.
process_mouse_position(a, new_position) ==
    LET absolute == new_position * a.window_size.backing_scale_factor
        relative == absolute - a.last_mouse_position
    IN [app |-> [a EXCEPT !.last_mouse_position = absolute],
        mouse_position |-> [absolute |-> absolute, relative |-> relative]]

\* Variant: the expiry's epoch is not compared.
handle_user_event_any_epoch(a, e) ==
    IF e.message_type = expire_message_event_id
    THEN [a EXCEPT !.ui_message = "", !.dirty = TRUE]
    ELSE a

\* The arm of a tagged user event: an expiry clears the message when its
\* id and its epoch are the session's.
handle_user_event(a, e) ==
    IF /\ e.message_type = expire_message_event_id
       /\ e.message_data = a.message_epoch
    THEN [a EXCEPT !.ui_message = "", !.dirty = TRUE]
    ELSE a

\* Variant: opening a scene starts the epochs over.
handle_open_svg_resets_epoch(a, e) ==
    LET built_svg == load_scene(e.svg_path)
        scene_metadata == SceneMetadata_new_clipping_view_box(built_svg)
    IN [a EXCEPT
          !.ui_message = get_svg_building_message(built_svg),
          !.message_epoch = 0,
          !.scene_metadata = scene_metadata,
          !.camera = Camera_new(a.ui_mode, scene_metadata.view_box,
                                viewport_size(a)),
          !.dirty = TRUE]

\* The arm of Event::OpenSVG: the scene is loaded, its warning displayed,
\* the metadata recomputed and the camera rebuilt for the UI's mode.
handle_open_svg(a, e) ==
    LET built_svg == load_scene(e.svg_path)
        scene_metadata == SceneMetadata_new_clipping_view_box(built_svg)
    IN [a EXCEPT
          !.ui_message = get_svg_building_message(built_svg),
          !.scene_metadata = scene_metadata,
          !.camera = Camera_new(a.ui_mode, scene_metadata.view_box,
                                viewport_size(a)),
          !.dirty = TRUE]

\* The arm of Event::SetEyeTransforms.
handle_set_eye_transforms(a, e) ==
    IF a.camera.kind = "ThreeD"
    THEN [a EXCEPT !.camera.eye_transforms = e.eye_transforms]
    ELSE a

\* The arm of Event::Look.
handle_look(a, e) ==
    IF a.camera.kind = "ThreeD"
    THEN [a EXCEPT !.camera.pitch = @ + e.pitch, !.camera.yaw = @ + e.yaw]
    ELSE a

\* Variant: the exit flag is set without marking the session dirty.
handle_quit_clean(a) == [a EXCEPT !.should_exit = TRUE]

\* The arm of Event::Quit and of KeyDown(Escape).
handle_quit(a) == [a EXCEPT !.should_exit = TRUE, !.dirty = TRUE]

\* The arm of Event::WindowResized.
handle_window_resized(a, e) ==
    [a EXCEPT !.window_size = e.new_size, !.dirty = TRUE]

\* Variant: the latest mouse-down is put first.
handle_mouse_down_first(a, events, e) ==
    LET r == process_mouse_position(a, e.position)
    IN [app |-> r.app,
        ui_events |-> <<[type |-> "MouseDown", position |-> r.mouse_position]>>
                      \o events]

\* The arm of Event::MouseDown.
handle_mouse_down(a, events, e) ==
    LET r == process_mouse_position(a, e.position)
    IN [app |-> r.app,
        ui_events |-> Append(events, [type |-> "MouseDown",
                                      position |-> r.mouse_position])]

\* Variant: a mouse move is tracked without the mouselook flag too.
handle_mouse_moved_tracking(a, e) ==
    LET r == process_mouse_position(a, e.position)
        rotation == r.mouse_position.relative * MOUSELOOK_ROTATION_SPEED
    IN IF a.mouselook_enabled /\ r.app.camera.kind = "ThreeD"
       THEN [r.app EXCEPT !.camera.yaw = @ + rotation,
                          !.camera.pitch = @ + rotation,
                          !.dirty = TRUE]
       ELSE r.app

\* Variant: a mouse move looks around whatever the mouselook flag is.
handle_mouse_moved_unguarded(a, e) ==
    LET r == process_mouse_position(a, e.position)
        rotation == r.mouse_position.relative * MOUSELOOK_ROTATION_SPEED
    IN IF r.app.camera.kind = "ThreeD"
       THEN [r.app EXCEPT !.camera.yaw = @ + rotation,
                          !.camera.pitch = @ + rotation,
                          !.dirty = TRUE]
       ELSE r.app

\* The arm of Event::MouseMoved, guarded by the mouselook flag; without
\* the flag the event falls through to the last arm.
handle_mouse_moved(a, e) ==
    IF ~a.mouselook_enabled
    THEN a
    ELSE LET r == process_mouse_position(a, e.position)
             rotation == r.mouse_position.relative * MOUSELOOK_ROTATION_SPEED
         IN IF r.app.camera.kind = "ThreeD"
            THEN [r.app EXCEPT !.camera.yaw = @ + rotation,
                               !.camera.pitch = @ + rotation,
                               !.dirty = TRUE]
            ELSE r.app

\* Variant: a drag marks the session dirty only where it moves the camera.
handle_mouse_dragged_2d_only(a, events, e) ==
    LET r == process_mouse_position(a, e.position)
    IN [app |-> [r.app EXCEPT !.dirty = (@ \/ r.app.camera.kind = "TwoD")],
        ui_events |-> IF r.app.camera.kind = "TwoD"
                      THEN Append(events, [type |-> "MouseDragged",
                                           position |-> r.mouse_position])
                      ELSE events]

\* The arm of Event::MouseDragged.
handle_mouse_dragged(a, events, e) ==
    LET r == process_mouse_position(a, e.position)
    IN [app |-> [r.app EXCEPT !.dirty = TRUE],
        ui_events |-> Append(events, [type |-> "MouseDragged",
                                      position |-> r.mouse_position])]

\* The arm of Event::Zoom: the 2D transform is scaled about the position.
handle_zoom(a, e) ==
    IF a.camera.kind = "TwoD"
    THEN LET position == e.position * a.window_size.backing_scale_factor
             scale_delta == 10 + e.d_dist * CAMERA_SCALE_SPEED_2D
         IN [a EXCEPT !.camera.transform =
                post_translate(
                    post_scale(post_translate(@, -position), scale_delta),
                    position)]
    ELSE a

\* Variant: the keys of an axis are counted, a release takes one away.
handle_velocity_key_counted(a, e) ==
    IF a.camera.kind # "ThreeD"
    THEN a
    ELSE LET speed == CAMERA_VELOCITY
                          \div scale_factor_for_view_box(a.scene_metadata.view_box)
             sign == IF e.keycode \in {"w", "a"} THEN -1 ELSE 1
             delta == IF e.type = "KeyDown" THEN sign * speed ELSE -sign * speed
         IN IF e.keycode \in {"w", "s"}
            THEN [a EXCEPT !.camera.velocity.z = @ + delta, !.dirty = TRUE]
            ELSE [a EXCEPT !.camera.velocity.x = @ + delta, !.dirty = TRUE]

\* The arms of KeyDown and KeyUp of w, s (forward, back) and a, d (left,
\* right).
handle_velocity_key(a, e) ==
    IF a.camera.kind # "ThreeD"
    THEN a
    ELSE LET speed == CAMERA_VELOCITY
                          \div scale_factor_for_view_box(a.scene_metadata.view_box)
             value == IF e.type = "KeyUp" THEN 0
                      ELSE IF e.keycode \in {"w", "a"} THEN -speed
                      ELSE speed
         IN IF e.keycode \in {"w", "s"}
            THEN [a EXCEPT !.camera.velocity.z = value, !.dirty = TRUE]
            ELSE [a EXCEPT !.camera.velocity.x = value, !.dirty = TRUE]

\* Variant: the visibility toggles between None and All.
next_ui_visibility_toggle(ui) ==
    CASE ui = "None" -> "All"
      [] ui = "Stats" -> "All"
      [] ui = "All" -> "None"

\* The arm of KeyDown(Tab): the next UI visibility.
next_ui_visibility(ui) ==
    CASE ui = "None" -> "Stats"
      [] ui = "Stats" -> "All"
      [] ui = "All" -> "None"

\* One iteration of the loop of handle_events: the arm of event e applied
\* to the session a and to the list of UI events gathered so far.
HandleEvent(a, events, e) ==
    CASE e.type = "User" ->
           [app |-> handle_user_event(a, e), ui_events |-> events]
      [] e.type = "Quit" \/ (e.type = "KeyDown" /\ e.keycode = "Escape") ->
           [app |-> handle_quit(a), ui_events |-> events]
      [] e.type = "WindowResized" ->
           [app |-> handle_window_resized(a, e), ui_events |-> events]
      [] e.type = "MouseMoved" ->
           [app |-> handle_mouse_moved(a, e), ui_events |-> events]
      [] e.type = "MouseDragged" -> handle_mouse_dragged(a, events, e)
      [] e.type = "Zoom" ->
           [app |-> handle_zoom(a, e), ui_events |-> events]
      [] e.type \in {"KeyDown", "KeyUp"} /\ e.keycode \in {"w", "a", "s", "d"} ->
           [app |-> handle_velocity_key(a, e), ui_events |-> events]
      [] e.type = "KeyDown" /\ e.keycode = "Tab" ->
           [app |-> [a EXCEPT !.options_ui = next_ui_visibility(@)],
            ui_events |-> events]
      [] e.type = "OpenSVG" ->
           [app |-> handle_open_svg(a, e), ui_events |-> events]
      [] e.type = "SetEyeTransforms" ->
           [app |-> handle_set_eye_transforms(a, e), ui_events |-> events]
      [] e.type = "Look" ->
           [app |-> handle_look(a, e), ui_events |-> events]
      [] e.type = "MouseDown" -> handle_mouse_down(a, events, e)
      [] OTHER -> [app |-> a, ui_events |-> events]

\* ------------------------------------------------------------------- state

VARIABLES
    app,          \* the fields of DemoApp (and of its ui and renderer)
    pc,           \* where the main thread is in the frame cycle
    ui_events,    \* handle_events' list of UI events, while it runs
    scene_count,  \* what prepare_frame returned to the main loop
    scene_index,  \* the main loop's next composite_scene index
    timers,       \* the sleeping threads emit_message spawned
    queue,        \* the window's queue of pushed user events
    calls,        \* the renderer calls issued in the current frame
    last_event,   \* history: the event the dispatcher handled last
    hist          \* history: posts made, posts replaced, events pushed

vars == <<app, pc, ui_events, scene_count, scene_index, timers, queue, calls,
          last_event, hist>>

\* The events the window backend delivers (besides the queued user events).
OpenSVG(scene) == [type |-> "OpenSVG", svg_path |-> scene]
SetEyeTransforms(l) == [type |-> "SetEyeTransforms", eye_transforms |-> l]
Look(p, y) == [type |-> "Look", pitch |-> p, yaw |-> y]
MouseDown(p) == [type |-> "MouseDown", position |-> p]
KeyDown(k) == [type |-> "KeyDown", keycode |-> k]
KeyUp(k) == [type |-> "KeyUp", keycode |-> k]
Quit == [type |-> "Quit"]
WindowResized(new_size) == [type |-> "WindowResized", new_size |-> new_size]
MouseMoved(p) == [type |-> "MouseMoved", position |-> p]
MouseDragged(p) == [type |-> "MouseDragged", position |-> p]
Zoom(d, p) == [type |-> "Zoom", d_dist |-> d, position |-> p]
User(id, data, n) ==
    [type |-> "User", message_type |-> id, message_data |-> data, post_no |-> n]

\* History: an input marked to be recorded when it is dispatched.
Traced(e) == e @@ [traced |-> TRUE]

EnvEvents ==
    {OpenSVG(s) : s \in Scenes}
    \cup {SetEyeTransforms(l) : l \in EyeLists}
    \cup {Look(1, 1)}
    \cup {MouseDown(1)}
    \cup {KeyDown("F1")}

\* The events that reach the message, with the user events of another
\* owner of the queue.
MessageEvents ==
    {e \in EnvEvents : e.type \in {"OpenSVG", "KeyDown"}}
    \cup {User(OtherEventId, d, 0) : d \in 0..MaxEpoch}

\* DemoApp::new: the session built for a scene, a mode and a UI visibility.
DemoApp_new(scene, mode, ui, em) ==
    LET scene_metadata == SceneMetadata_new_clipping_view_box(scene)
        window_size == WindowSize(100)
    IN [should_exit |-> FALSE,
        options_ui |-> ui,
        window_size |-> window_size,
        scene_metadata |-> scene_metadata,
        render_transform |-> None,
        camera |-> Camera_new(mode, scene_metadata.view_box,
                              window_viewport(window_size, Mode_view(mode))),
        mouselook_enabled |-> FALSE,
        dirty |-> TRUE,
        message_epoch |-> em.message_epoch,
        last_mouse_position |-> 0,
        current_frame |-> None,
        ui_message |-> em.ui_message,
        ui_mode |-> mode,
        dest_framebuffer |-> [kind |-> "Default", framebuffer |-> None],
        scene_framebuffer |-> None,
        render_command_stream |-> None,
        build_time |-> None,
        pending_screenshot_path |-> None,
        background_color |-> "Light"]

InitWith(Backgrounds) ==
    \E scene \in Scenes, mode \in Modes, ui \in UIVisibility,
       background_color \in Backgrounds :
        LET em == emit_message("", 0, get_svg_building_message(load_scene(scene)))
        IN /\ app = [DemoApp_new(scene, mode, ui, em)
                       EXCEPT !.background_color = background_color]
           /\ pc = "Idle"
           /\ ui_events = <<>>
           /\ scene_count = 0
           /\ scene_index = 0
           /\ timers = IF IsSome(em.spawned)
                       THEN {[expected_epoch |-> Unwrap(em.spawned), post_no |-> 1]}
                       ELSE {}
           /\ queue = <<>>
           /\ calls = <<>>
           /\ last_event = None
           /\ hist = [posts |-> IF IsSome(em.spawned) THEN 1 ELSE 0,
                      replaced_upto |-> 0,
                      pushed |-> 0]

\* The session constructed with the default background.
Init == InitWith({"Light"})

\* ---------------------------------------------------------------- pipeline

Frame_new(transform, events) ==
    [transform |-> transform, ui_events |-> events,
     scene_rendering_times |-> <<>>, scene_stats |-> <<>>]

\* scene_proxy.build_with_stream: the commands of one build, the last being
\* the Finish command that reports how long the build took.
build_with_stream(build_time) ==
    << [type |-> "AddFills"],
       [type |-> "AddTiles"],
       [type |-> "Finish", build_time |-> build_time] >>

\* build_scene: integrates the 3D velocity, derives render_transform and
\* requests the command stream of the build.
build_scene(a, build_time) ==
    LET stream == Some(build_with_stream(build_time))
    IN IF a.camera.kind = "ThreeD"
       THEN LET moved == a.camera.velocity # Zero
                camera == [a.camera EXCEPT
                             !.position.x = @ + a.camera.velocity.x,
                             !.position.z = @ + a.camera.velocity.z]
            IN [a EXCEPT
                  !.camera = camera,
                  !.dirty = IF moved THEN TRUE ELSE @,
                  !.render_transform =
                      Some([kind |-> "Perspective",
                            scene_transform |-> camera.scene_transform,
                            yaw |-> camera.yaw, pitch |-> camera.pitch,
                            position |-> camera.position]),
                  !.render_command_stream = stream]
       ELSE [a EXCEPT
               !.render_transform =
                   Some([kind |-> "Transform2D",
                         transform |-> a.camera.transform]),
               !.render_command_stream = stream]

\* Variant: the frame is saved without the events gathered.
save_frame_without_events(b, events) ==
    LET transform == Unwrap(b.render_transform)
    IN [b EXCEPT !.current_frame = Some(Frame_new(transform, <<>>))]

\* The frame is saved: the transform just built and the events gathered.
save_frame(b, events) ==
    LET transform == Unwrap(b.render_transform)
    IN [b EXCEPT !.current_frame = Some(Frame_new(transform, events))]

\* Variant: the scene count follows the mode selected in the UI instead of
\* the camera's.
prepare_frame_by_ui_mode(a, events, build_time) ==
    LET f == save_frame(build_scene(a, build_time), events)
    IN IF f.ui_mode = "VR"
       THEN [app |-> [f EXCEPT
                        !.dest_framebuffer =
                            [kind |-> "Other",
                             framebuffer |->
                                 Some([size |->
                                     window_viewport(f.window_size, "Stereo")])],
                        !.scene_framebuffer = None],
             clear |-> "clear_transparent",
             scene_count |-> 2]
       ELSE [app |-> [f EXCEPT
                        !.dest_framebuffer =
                            [kind |-> "Default", framebuffer |-> None]],
             clear |-> "clear_background",
             scene_count |-> 1]

\* prepare_frame after handle_events has returned events: the session, the
\* clear it issues and the scene count it returns.
prepare_frame(a, events, build_time) ==
    LET f == save_frame(build_scene(a, build_time), events)
    IN IF Camera_mode(f.camera) = "VR"
       THEN LET viewport == window_viewport(f.window_size, "Stereo")
                scene_framebuffer ==
                    IF \/ f.scene_framebuffer = None
                       \/ Unwrap(f.scene_framebuffer).size # viewport
                    THEN Some([size |-> viewport])
                    ELSE f.scene_framebuffer
            IN [app |-> [f EXCEPT
                           !.dest_framebuffer =
                               [kind |-> "Other",
                                framebuffer |-> scene_framebuffer],
                           !.scene_framebuffer = None],
                clear |-> "clear_transparent",
                scene_count |-> 2]
       ELSE [app |-> [f EXCEPT
                        !.dest_framebuffer =
                            [kind |-> "Default", framebuffer |-> None]],
             clear |-> "clear_background",
             scene_count |-> 1]

\* The renderer calls of draw_environment: the ground pass, unless the
\* frame's transform is a 2D one or the background is transparent.
draw_environment(a) ==
    IF Unwrap(a.current_frame).transform.kind = "Transform2D"
    THEN <<>>
    ELSE IF a.background_color = "Transparent"
    THEN <<>>
    ELSE <<"draw_environment">>

\* The commands the loop of render_vector_scene pulls from the stream: all
\* that the stream has left.
pulled(a) == Unwrap(a.render_command_stream)

\* Variant: the stream is read without being consumed.
render_vector_scene_restartable(a) ==
    LET frame == Unwrap(a.current_frame)
        commands == pulled(a)
        finishes == SelectSeq(commands, LAMBDA c : c.type = "Finish")
    IN [a EXCEPT
          !.build_time = IF finishes # <<>>
                         THEN Some(finishes[Len(finishes)].build_time)
                         ELSE @,
          !.current_frame =
              Some([frame EXCEPT !.scene_stats = Append(@, "stats")])]

\* Variant: the build time is recorded only while none is known.
render_vector_scene_first_time(a) ==
    LET frame == Unwrap(a.current_frame)
        commands == pulled(a)
        finishes == SelectSeq(commands, LAMBDA c : c.type = "Finish")
    IN [a EXCEPT
          !.render_command_stream = Some(<<>>),
          !.build_time = IF finishes # <<>> /\ a.build_time = None
                         THEN Some(finishes[Len(finishes)].build_time)
                         ELSE @,
          !.current_frame =
              Some([frame EXCEPT !.scene_stats = Append(@, "stats")])]

\* render_vector_scene: every command left in the stream is pulled, the
\* build time of a Finish command is kept, the statistics join the frame.
render_vector_scene(a) ==
    LET frame == Unwrap(a.current_frame)
        commands == pulled(a)
        finishes == SelectSeq(commands, LAMBDA c : c.type = "Finish")
    IN [a EXCEPT
          !.render_command_stream = Some(<<>>),
          !.build_time = IF finishes # <<>>
                         THEN Some(finishes[Len(finishes)].build_time)
                         ELSE @,
          !.current_frame =
              Some([frame EXCEPT !.scene_stats = Append(@, "stats")])]

\* The renderer calls of render_vector_scene: one render_command per
\* command pulled, in the order of the stream.
render_vector_scene_calls(a) ==
    <<"begin_scene">>
    \o [i \in 1..Len(pulled(a)) |-> pulled(a)[i].type]
    \o <<"end_scene">>

\* Variant: the ground pass is issued in VR too.
draw_scene_calls_always(a) ==
    draw_environment(a) \o render_vector_scene_calls(a)

\* The renderer calls of draw_scene: the ground pass outside VR, then the
\* scene content.
draw_scene_calls(a) ==
    (IF Camera_mode(a.camera) # "VR" THEN draw_environment(a) ELSE <<>>)
    \o render_vector_scene_calls(a)

\* Variant: the default framebuffer is reattached and the side one dropped.
draw_scene_dropping_framebuffer(a) ==
    LET drawn == render_vector_scene(a)
    IN IF Camera_mode(a.camera) # "VR"
       THEN drawn
       ELSE [drawn EXCEPT
               !.dest_framebuffer = [kind |-> "Default", framebuffer |-> None]]

\* draw_scene: the scene content is rendered into the bound framebuffer; in
\* VR the default framebuffer is reattached and the side one handed back.
draw_scene(a) ==
    LET drawn == render_vector_scene(a)
    IN IF Camera_mode(a.camera) # "VR"
       THEN drawn
       ELSE [drawn EXCEPT
               !.dest_framebuffer = [kind |-> "Default", framebuffer |-> None],
               !.scene_framebuffer =
                   IF a.dest_framebuffer.kind = "Other"
                   THEN a.dest_framebuffer.framebuffer
                   ELSE @]

\* composite_scene: whether it reprojects (VR only), and the session after.
composite_reprojects(a) ==
    /\ a.camera.kind = "ThreeD"
    /\ Len(a.camera.eye_transforms) > 1

\* Variant: a pending mode switch is applied while the frame is composited.
composite_scene_switching(a, render_scene_index) ==
    IF Camera_mode(a.camera) # a.ui_mode
    THEN [a EXCEPT !.camera = Camera_new(a.ui_mode, a.scene_metadata.view_box,
                                         viewport_size(a))]
    ELSE a

composite_scene(a, render_scene_index) ==
    IF composite_reprojects(a)
    THEN [a EXCEPT !.dest_framebuffer = [kind |-> "Default", framebuffer |-> None]]
    ELSE a

\* The renderer calls of composite_scene: the clear, the ground pass and
\* the reprojection of the scene texture.
composite_scene_calls(a) ==
    IF composite_reprojects(a)
    THEN <<"clear_background">> \o draw_environment(a)
         \o <<"reproject_texture">>
    ELSE <<>>

\* center_of_window.
center_of_window(window_size) == device_size(window_size) \div 2

\* The 2D transform scaled or rotated about the centre of the window.
about_center(a, transform, op, by) ==
    LET center == center_of_window(a.window_size)
        moved == post_translate(transform, -center)
        done == IF op = "scale" THEN post_scale(moved, by)
                ELSE post_rotate(moved, by)
    IN post_translate(done, center)

\* UIAction: a kind, and the angle of a Rotate (quarter turns).
UIAction(kind, theta) == [kind |-> kind, theta |-> theta]

\* UIAction::TakeScreenshot.
TakeScreenshot(path) == [kind |-> "TakeScreenshot", path |-> path]

\* Variant: a zoom button also pushes a 3D camera forward.
handle_ui_action_zoom_any_camera(a, scale) ==
    IF a.camera.kind = "TwoD"
    THEN [a EXCEPT !.camera.transform = about_center(a, @, "scale", scale),
                   !.dirty = TRUE]
    ELSE [a EXCEPT !.camera.velocity.z = -1, !.dirty = TRUE]

\* The arms of UIAction::ZoomIn and UIAction::ZoomOut, scale being
\* 1 + CAMERA_ZOOM_AMOUNT_2D or 1 - CAMERA_ZOOM_AMOUNT_2D.
handle_ui_action_zoom(a, scale) ==
    IF a.camera.kind = "TwoD"
    THEN [a EXCEPT !.camera.transform = about_center(a, @, "scale", scale),
                   !.dirty = TRUE]
    ELSE a

\* Variant: the transform is turned by theta from where it is.
handle_ui_action_rotate_by(a, theta) ==
    IF a.camera.kind = "TwoD"
    THEN [a EXCEPT !.camera.transform = about_center(a, @, "rotate", theta)]
    ELSE a

\* The arm of UIAction::Rotate.
handle_ui_action_rotate(a, theta) ==
    IF a.camera.kind = "TwoD"
    THEN LET old_rotation == Transform2D_rotation(a.camera.transform)
         IN [a EXCEPT !.camera.transform =
                about_center(a, @, "rotate", theta - old_rotation)]
    ELSE a

\* handle_ui_action, for the actions the UI returns here.
handle_ui_action(a, ui_action) ==
    CASE ui_action.kind = "ModelChanged" -> [a EXCEPT !.dirty = TRUE]
      [] ui_action.kind = "TakeScreenshot" ->
           [a EXCEPT !.pending_screenshot_path = Some(ui_action.path),
                     !.dirty = TRUE]
      [] ui_action.kind = "ZoomIn" ->
           handle_ui_action_zoom(a, 10 + CAMERA_ZOOM_AMOUNT_2D)
      [] ui_action.kind = "ZoomOut" ->
           handle_ui_action_zoom(a, 10 - CAMERA_ZOOM_AMOUNT_2D)
      [] ui_action.kind = "Rotate" ->
           handle_ui_action_rotate(a, ui_action.theta)
      [] OTHER -> a

\* Variant: an unhandled mouse-down toggles mouselook with any camera.
RECURSIVE toggle_mouselook_any_camera(_, _)
toggle_mouselook_any_camera(a, events) ==
    IF events = <<>>
    THEN a
    ELSE toggle_mouselook_any_camera(
             IF Head(events).type = "MouseDown"
             THEN [a EXCEPT !.mouselook_enabled = ~@]
             ELSE IF Head(events).type = "MouseDragged" /\ a.camera.kind = "TwoD"
             THEN [a EXCEPT !.camera.transform =
                      post_translate(@, Head(events).position.relative)]
             ELSE a,
             Tail(events))

\* The UI events no widget handled: a mouse-down toggles mouselook in 3D,
\* a drag pans the 2D transform.
RECURSIVE toggle_mouselook(_, _)
toggle_mouselook(a, events) ==
    IF events = <<>>
    THEN a
    ELSE toggle_mouselook(
             IF Head(events).type = "MouseDown" /\ Camera_is_3d(a.camera)
             THEN [a EXCEPT !.mouselook_enabled = ~@]
             ELSE IF Head(events).type = "MouseDragged" /\ a.camera.kind = "TwoD"
             THEN [a EXCEPT !.camera.transform =
                      post_translate(@, Head(events).position.relative)]
             ELSE a,
             Tail(events))

\* The outcomes of the external UI's update: the mode its panel selects, the
\* queued events its widgets consumed, and the action it returns.
UIUpdatesOf(a, Actions) ==
    IF a.options_ui = "All"
    THEN [mode : Modes,
          handled : SUBSET (1..Len(Unwrap(a.current_frame).ui_events)),
          action : Actions]
    ELSE {[mode |-> a.ui_mode, handled |-> {}, action |-> UIAction("None", 0)]}

UIUpdates(a) ==
    UIUpdatesOf(a, {UIAction("None", 0), UIAction("ModelChanged", 0)})

Remaining(events, handled) ==
    LET F[i \in 0..Len(events)] ==
            IF i = 0 THEN <<>>
            ELSE IF i \in handled THEN F[i - 1]
            ELSE Append(F[i - 1], events[i])
    IN F[Len(events)]

\* Variant: the transform is taken out with the frame.
take_frame_and_transform(a) ==
    [a EXCEPT !.current_frame = None, !.render_transform = None]

\* The frame is taken out of the session.
take_frame(a) == [a EXCEPT !.current_frame = None]

\* A path image::save_buffer cannot write to, and the result of the write.
Unwritable == "/unwritable/shot.png"

save_buffer(path) == IF path = Unwritable THEN "Err" ELSE "Ok"

\* Variant: the pending path is read without being taken.
take_screenshot_keeping(a) ==
    LET screenshot_path == Unwrap(a.pending_screenshot_path)
    IN [app |-> a,
        calls |-> <<"read_pixels_from_default_framebuffer", "save_buffer",
                    screenshot_path>>,
        saved |-> save_buffer(screenshot_path)]

\* take_screenshot: the pending path is taken, the pixels are read back and
\* written to it; saved is the result the final unwrap is applied to.
take_screenshot(a) ==
    LET screenshot_path == Unwrap(a.pending_screenshot_path)
    IN [app |-> [a EXCEPT !.pending_screenshot_path = None],
        calls |-> <<"read_pixels_from_default_framebuffer", "save_buffer",
                    screenshot_path>>,
        saved |-> save_buffer(screenshot_path)]

\* The start of finish_drawing_frame: the frame is taken and a pending
\* screenshot captured.
capture_pending(a) ==
    IF IsSome(a.pending_screenshot_path)
    THEN take_screenshot(take_frame(a))
    ELSE [app |-> take_frame(a), calls |-> <<>>, saved |-> "Ok"]

\* finish_drawing_frame, given what the UI's update did.
finish_drawing_frame(a, u) ==
    LET frame == Unwrap(a.current_frame)
        taken == capture_pending(a).app
        debug == IF taken.options_ui # "None"
                 THEN [taken EXCEPT !.dest_framebuffer =
                           [kind |-> "Default", framebuffer |-> None]]
                 ELSE taken
        queued == IF frame.ui_events # <<>>
                  THEN [debug EXCEPT !.dirty = TRUE]
                  ELSE debug
        updated == [queued EXCEPT !.ui_mode = u.mode]
        acted == handle_ui_action(updated, u.action)
        switched == IF Camera_mode(acted.camera) # acted.ui_mode
                    THEN [acted EXCEPT !.camera =
                              Camera_new(acted.ui_mode,
                                         acted.scene_metadata.view_box,
                                         viewport_size(acted))]
                    ELSE acted
    IN toggle_mouselook(switched, Remaining(frame.ui_events, u.handled))

\* ----------------------------------------------------------------- actions

\* History: the user event just dispatched, the message just posted, the
\* scene just opened with a warning or the input marked to be recorded; a is
\* the session after it.
Observed(e, a) ==
    IF \/ e.type \in {"User", "Post"}
       \/ e.type = "OpenSVG" /\ a.ui_message # ""
       \/ "traced" \in DOMAIN e
    THEN Some(e)
    ELSE None

\* prepare_frame and handle_events start: both clear the dirty flag.
BeginPrepare ==
    /\ pc = "Idle"
    /\ app' = [app EXCEPT !.dirty = FALSE]
    /\ pc' = "HandleEvents"
    /\ ui_events' = <<>>
    /\ last_event' = None
    /\ UNCHANGED <<scene_count, scene_index, timers, queue, calls, hist>>

\* The session within the bounds of the camera's numbers.
WithinBounds(a) ==
    /\ a.camera.kind = "ThreeD" =>
           /\ a.camera.yaw \in -MaxLook..MaxLook
           /\ a.camera.pitch \in -MaxLook..MaxLook
           /\ a.camera.position.x \in -MaxPosition..MaxPosition
           /\ a.camera.position.z \in -MaxPosition..MaxPosition
    /\ a.camera.kind = "TwoD" => Len(a.camera.transform.ops) <= MaxOps

\* The inputs kept within the bounds.
InBounds(e) ==
    /\ e.type = "Look" /\ app.camera.kind = "ThreeD" =>
           /\ app.camera.yaw + e.yaw <= MaxAngle
           /\ app.camera.pitch + e.pitch <= MaxAngle
    /\ e.type \in {"MouseDown", "MouseDragged"} => Len(ui_events) < MaxUIEvents

\* History: a scene opened with a warning replaces the message of every
\* post made so far.
Observe(h, e, a) ==
    IF e.type = "OpenSVG" /\ a.ui_message # ""
    THEN [h EXCEPT !.replaced_upto = h.posts]
    ELSE h

\* The loop of handle_events takes an event of the window backend.
HandleInput(e) ==
    /\ pc = "HandleEvents"
    /\ InBounds(e)
    /\ IF e.type = "OpenSVG" /\ ~load_scene_unwraps(e.svg_path)
       THEN /\ pc' = "Panicked"
            /\ last_event' = Some(e)
            /\ UNCHANGED <<app, ui_events, hist>>
       ELSE /\ LET r == HandleEvent(app, ui_events, e)
               IN /\ WithinBounds(r.app)
                  /\ app' = r.app
                  /\ ui_events' = r.ui_events
                  /\ hist' = Observe(hist, e, r.app)
                  /\ last_event' = Observed(e, r.app)
            /\ pc' = pc
    /\ UNCHANGED <<scene_count, scene_index, timers, queue, calls>>

\* The loop of handle_events takes the oldest pushed user event.
HandleQueued ==
    /\ pc = "HandleEvents"
    /\ queue # <<>>
    /\ LET r == HandleEvent(app, ui_events, Head(queue))
       IN /\ app' = r.app
          /\ ui_events' = r.ui_events
          /\ last_event' = Observed(Head(queue), r.app)
    /\ queue' = Tail(queue)
    /\ UNCHANGED <<pc, scene_count, scene_index, timers, calls, hist>>

\* The loop ends; prepare_frame builds the scene, opens the frame and binds
\* and clears the target.
EndPrepareWith(Times) ==
    /\ pc = "HandleEvents"
    /\ \E build_time \in Times :
          LET r == prepare_frame(app, ui_events, build_time)
          IN /\ WithinBounds(r.app)
             /\ app' = r.app
             /\ calls' = <<r.clear>>
             /\ scene_count' = r.scene_count
    /\ pc' = "Prepared"
    /\ last_event' = None
    /\ UNCHANGED <<ui_events, scene_index, timers, queue, hist>>

\* The build of every frame reporting the same duration.
EndPrepare == EndPrepareWith({1})

Draw ==
    /\ pc = "Prepared"
    /\ app' = draw_scene(app)
    /\ calls' = calls \o draw_scene_calls(app)
    /\ pc' = "Drawn"
    /\ scene_index' = 0
    /\ UNCHANGED <<ui_events, scene_count, timers, queue, last_event, hist>>

\* The main loop calls composite_scene once per scene prepare_frame counted.
Composite ==
    /\ pc = "Drawn"
    /\ scene_index < scene_count
    /\ app' = composite_scene(app, scene_index)
    /\ calls' = calls \o composite_scene_calls(app)
    /\ scene_index' = scene_index + 1
    /\ UNCHANGED <<pc, ui_events, scene_count, timers, queue, last_event, hist>>

\* finish_drawing_frame, the UI returning an action of Actions; the main
\* loop's frame is over.
FinishWith(Actions) ==
    /\ pc = "Drawn"
    /\ scene_index = scene_count
    /\ LET capture == capture_pending(app)
       IN IF capture.saved = "Err"
          THEN /\ app' = capture.app
               /\ pc' = "Panicked"
               /\ calls' = capture.calls
               /\ UNCHANGED <<scene_count, scene_index, ui_events, last_event>>
          ELSE /\ \E u \in UIUpdatesOf(app, Actions) :
                     LET finished == finish_drawing_frame(app, u)
                     IN /\ WithinBounds(finished)
                        /\ app' = finished
                        /\ last_event' = IF u.action.kind = "TakeScreenshot"
                                         THEN Some(u.action)
                                         ELSE last_event
               /\ pc' = "Idle"
               /\ scene_count' = 0
               /\ scene_index' = 0
               /\ calls' = capture.calls
               /\ ui_events' = <<>>
    /\ UNCHANGED <<timers, queue, hist>>

Finish == FinishWith({UIAction("None", 0), UIAction("ModelChanged", 0)})

\* Variant: the thread reads the session's epoch when it wakes up.
PushedEvent_live_epoch(t, a) ==
    User(expire_message_event_id, a.message_epoch, t.post_no)

\* The event a timer thread pushes when its sleep ends.
PushedEvent(t, a) ==
    User(expire_message_event_id, t.expected_epoch, t.post_no)

TimerFire ==
    \E t \in timers :
        /\ timers' = timers \ {t}
        /\ queue' = Append(queue, PushedEvent(t, app))
        /\ hist' = [hist EXCEPT !.pushed = @ + 1]
        /\ UNCHANGED <<app, pc, ui_events, scene_count, scene_index, calls,
                       last_event>>

\* emit_message applied between two frames.
Messages == {"", "note"}

Post(message) ==
    /\ pc = "Idle"
    /\ message # "" => hist.posts < MaxEpoch
    /\ LET em == emit_message(app.ui_message, app.message_epoch, message)
       IN /\ app' = [app EXCEPT !.ui_message = em.ui_message,
                                !.message_epoch = em.message_epoch]
          /\ timers' = IF IsSome(em.spawned)
                       THEN timers \cup {[expected_epoch |-> Unwrap(em.spawned),
                                          post_no |-> hist.posts + 1]}
                       ELSE timers
    /\ hist' = IF message # ""
               THEN [hist EXCEPT !.posts = @ + 1, !.replaced_upto = hist.posts]
               ELSE hist
    /\ last_event' = Observed([type |-> "Post", message |-> message], app')
    /\ UNCHANGED <<pc, ui_events, scene_count, scene_index, queue, calls>>

\* The frame cycle of the main loop over the events of Inputs.
MainThread(Inputs) ==
    \/ BeginPrepare
    \/ \E e \in Inputs : HandleInput(e)
    \/ HandleQueued
    \/ EndPrepare
    \/ Draw
    \/ Composite
    \/ Finish

\* The frame cycle with the UI returning an action of Actions.
MainThreadWith(Inputs, Actions) ==
    \/ BeginPrepare
    \/ \E e \in Inputs : HandleInput(e)
    \/ HandleQueued
    \/ EndPrepare
    \/ Draw
    \/ Composite
    \/ FinishWith(Actions)

\* The session: the main loop and the timer threads.
Next == MainThread(EnvEvents) \/ TimerFire

Spec == Init /\ [][Next]_vars

\* The session with emit_message also applied between frames, over the
\* events that reach the message.
NextPost ==
    \/ MainThread(MessageEvents)
    \/ TimerFire
    \/ \E m \in Messages : Post(m)

PostSpec == Init /\ [][NextPost]_vars

\* The session over the events that reach the message: every timer thread
\* wakes up, the main loop runs frame after frame, every batch is finite and
\* every pushed event is taken in some batch.
NextMessage == MainThread(MessageEvents) \/ TimerFire

FairSpec ==
    /\ Init
    /\ [][NextMessage]_vars
    /\ WF_vars(TimerFire)
    /\ WF_vars(BeginPrepare)
    /\ SF_vars(HandleQueued)
    /\ WF_vars(EndPrepare)
    /\ WF_vars(Draw)
    /\ WF_vars(Composite)
    /\ WF_vars(Finish)

\* The session over the events and the UI actions that move the camera or
\* resize the window.
CameraEvents ==
    {Zoom(1, 1), MouseDragged(1), Look(1, 1), SetEyeTransforms(<<1, 2>>)}
    \cup {WindowResized(WindowSize(l)) : l \in LogicalSizes}

CameraActions ==
    {UIAction("None", 0), UIAction("ZoomIn", 0), UIAction("Rotate", 1)}

NextCamera == MainThreadWith(CameraEvents, CameraActions) \/ TimerFire

CameraSpec == Init /\ [][NextCamera]_vars

\* The session over the keys that move the 3D camera.
KeyEvents ==
    {Traced(KeyDown(k)) : k \in {"w", "a", "s", "d"}}
    \cup {Traced(KeyUp(k)) : k \in {"w", "a", "s", "d"}}

NextKey == MainThread(KeyEvents) \/ TimerFire

KeySpec == Init /\ [][NextKey]_vars

\* The session over the events that become UI events, and a key that
\* does not.
MouseEvents ==
    {Traced(MouseDown(0)), Traced(MouseDragged(1)), Traced(KeyDown("F1"))}

NextMouse == MainThread(MouseEvents) \/ TimerFire

MouseSpec == Init /\ [][NextMouse]_vars

\* The session over the mouse moves, with the mouse-down that toggles
\* mouselook.
LookEvents ==
    {Traced(MouseMoved(0)), Traced(MouseMoved(1)), MouseDown(0)}

NextLook == MainThread(LookEvents) \/ TimerFire

LookSpec == Init /\ [][NextLook]_vars

\* The session over the events the dispatcher has no arm for: other keys,
\* user events of another id or of another epoch, mouse moves without
\* mouselook.
DropEvents ==
    {Traced(KeyDown("F1")), Traced(KeyUp("F1")), Traced(MouseMoved(1)),
     User(OtherEventId, 1, 0)}
    \cup {User(expire_message_event_id, d, 0) : d \in 0..MaxEpoch}

NextDrop == MainThread(DropEvents) \/ TimerFire

DropSpec == Init /\ [][NextDrop]_vars

\* The session over the keys that control the session, and a key that
\* does not.
ControlEvents ==
    {Traced(KeyDown("Tab")), Traced(KeyDown("Escape")), Traced(Quit),
     Traced(KeyDown("F1"))}

NextControl == MainThread(ControlEvents) \/ TimerFire

ControlSpec == Init /\ [][NextControl]_vars

\* ------------------------------------------------------------------ claims

\* The steps of the model, told apart by what they change.
TimerStep == Cardinality(timers') < Cardinality(timers)
DispatchStep ==
    /\ pc = "HandleEvents" /\ pc' = "HandleEvents"
    /\ timers' = timers
UserDispatch ==
    /\ DispatchStep
    /\ last_event' # None
    /\ Unwrap(last_event').type = "User"
PostStep ==
    /\ pc = "Idle" /\ pc' = "Idle"
    /\ timers \subseteq timers'
    /\ last_event' # None
JustDisplayed ==
    /\ last_event # None
    /\ \/ Unwrap(last_event).type = "OpenSVG"
       \/ /\ Unwrap(last_event).type = "Post"
          /\ Unwrap(last_event).message # ""
FrameInFlight == pc \in {"Prepared", "Drawn"}

\* C1: a dispatched user event clears the message and sets dirty exactly
\* when its id is the expire-message id and its epoch is the current
\* MessageEpoch; any other (id, epoch) leaves the session as it was.
C1_ExpiryNeedsIdAndEpoch ==
    [][UserDispatch =>
          LET e == Unwrap(last_event')
          IN /\ ui_events' = ui_events
             /\ IF /\ e.message_type = expire_message_event_id
                   /\ e.message_data = app.message_epoch
                THEN app' = [app EXCEPT !.ui_message = "", !.dirty = TRUE]
                ELSE app' = app]_vars

C1_Witness ==
    /\ pc = "HandleEvents"
    /\ last_event # None
    /\ Unwrap(last_event).type = "User"
    /\ Unwrap(last_event).message_type = expire_message_event_id
    /\ Unwrap(last_event).message_data = app.message_epoch
    /\ hist.posts >= 2
    /\ app.ui_message = ""
    /\ app.dirty

\* C2: of two non-empty posts, the expiry of the first, dispatched after
\* the second post, changes nothing; an expiry that clears the message is
\* the expiry of the latest post, and that one does clear it.
C2_OnlyLatestPostExpires ==
    [][UserDispatch /\ Unwrap(last_event').post_no > 0 =>
          LET e == Unwrap(last_event')
          IN /\ e.post_no < hist.posts => app' = app
             /\ app.ui_message # "" /\ app'.ui_message = ""
                    => e.post_no = hist.posts
             /\ e.post_no = hist.posts
                    => app'.ui_message = "" /\ app'.dirty]_vars

C2_Witness ==
    /\ pc = "HandleEvents"
    /\ hist.posts = 2
    /\ last_event # None
    /\ Unwrap(last_event).type = "User"
    /\ Unwrap(last_event).post_no = 1
    /\ app.ui_message = "note"

\* C3: an expiry scheduled for an earlier message never clears a message
\* displayed after it, whether emit_message or an opened scene displayed it.
C3_NoPrematureClear ==
    [][UserDispatch
          /\ Unwrap(last_event').post_no > 0
          /\ Unwrap(last_event').post_no <= hist.replaced_upto
          => ~(app.ui_message # "" /\ app'.ui_message = "")]_vars

\* C4: a displayed message on which no later message follows is eventually
\* cleared, the timer threads waking up and the main loop taking every
\* pushed event.
C4_EveryMessageExpires ==
    [](app.ui_message # "" /\ ~JustDisplayed
           => <>(app.ui_message = "" \/ JustDisplayed))

\* C5: MessageEpoch counts the non-empty posts: a non-empty post increases
\* it by one and no other step changes it, so it never decreases.
C5_EpochCountsPosts ==
    /\ [](app.message_epoch = hist.posts)
    /\ [][/\ app'.message_epoch >= app.message_epoch
          /\ IF hist'.posts # hist.posts
             THEN app'.message_epoch = app.message_epoch + 1
             ELSE app'.message_epoch = app.message_epoch]_vars

C5_Witness ==
    /\ pc = "Idle"
    /\ last_event = Some([type |-> "Post", message |-> "note"])
    /\ app.message_epoch = 2
    /\ hist.replaced_upto = 1

\* C6: a post of the empty message changes neither the session nor the
\* sleeping threads nor the queue.
C6_EmptyPostIsNoOp ==
    [][PostStep /\ Unwrap(last_event').message = ""
          => UNCHANGED <<app, timers, queue, hist>>]_vars

C6_Witness ==
    /\ pc = "Idle"
    /\ last_event = Some([type |-> "Post", message |-> ""])
    /\ app.ui_message # ""
    /\ timers # {}

\* C7: a timer thread's step only moves its own (id, epoch), as captured at
\* the post, into the queue; each non-empty post has one thread or one
\* event pushed; the message changes only in a step of the main thread
\* that dispatches an event or posts.
InFlight(n) ==
    Cardinality({t \in timers : t.post_no = n})
    + Cardinality({i \in 1..Len(queue) : queue[i].post_no = n})

C7_TimerOnlyEnqueues ==
    /\ [](/\ Cardinality(timers) + hist.pushed = hist.posts
          /\ \A n \in 1..hist.posts : InFlight(n) <= 1)
    /\ [][TimerStep =>
             /\ UNCHANGED <<app, pc, ui_events, calls>>
             /\ \E t \in timers :
                   /\ timers' = timers \ {t}
                   /\ queue' = Append(queue,
                          [type |-> "User",
                           message_type |-> expire_message_event_id,
                           message_data |-> t.expected_epoch,
                           post_no |-> t.post_no])]_vars
    /\ [][app'.ui_message # app.ui_message => DispatchStep \/ PostStep]_vars

C7_Witness ==
    /\ queue # <<>>
    /\ hist.pushed >= 1
    /\ queue[Len(queue)].message_data < app.message_epoch
    /\ app.ui_message # ""

\* C8: render_transform is present exactly while a frame is between Build
\* and Finish.
C8_TransformOnlyInFlight ==
    IsSome(app.render_transform) <=> FrameInFlight

\* C8, amended: render_transform is absent until the first Build, is set by
\* Build alone, is present while a frame is in flight and is never cleared.
C8_TransformKeptAfterFinish ==
    /\ [](FrameInFlight => IsSome(app.render_transform))
    /\ [][/\ IsSome(app.render_transform) => IsSome(app'.render_transform)
          /\ app'.render_transform # app.render_transform
                 => pc = "HandleEvents" /\ pc' = "Prepared"]_vars

C8_Witness ==
    /\ pc = "Idle"
    /\ IsSome(app.render_transform)
    /\ app.current_frame = None

\* C9: the Frame is absent outside a frame in flight; Prepare creates it
\* with the transform it built and the UI events its dispatcher gathered;
\* it is kept until Finish, which consumes it and leaves none.
C9_FrameLivesOneCycle ==
    /\ [](IsSome(app.current_frame) <=> FrameInFlight)
    /\ [][/\ pc = "HandleEvents" /\ pc' = "Prepared" =>
                app'.current_frame =
                    Some(Frame_new(Unwrap(app'.render_transform), ui_events))
          /\ FrameInFlight /\ pc' # "Idle" =>
                /\ Unwrap(app'.current_frame).transform
                       = Unwrap(app.current_frame).transform
                /\ Unwrap(app'.current_frame).ui_events
                       = Unwrap(app.current_frame).ui_events
          /\ FrameInFlight /\ pc' = "Idle" =>
                /\ app'.current_frame = None
                /\ Unwrap(app.current_frame).ui_events # <<>> => app'.dirty]_vars

C9_Witness ==
    /\ pc = "Drawn"
    /\ scene_index = scene_count
    /\ Unwrap(app.current_frame).ui_events # <<>>
    /\ Unwrap(app.current_frame).transform.kind = "Perspective"
    /\ Unwrap(app.current_frame).transform.yaw > 0

\* C10: a Perspective3D camera has at least one eye transform, and the
\* Composite reprojection is issued only with more than one.
C10_AtLeastOneEye ==
    /\ app.camera.kind = "ThreeD" => Len(app.camera.eye_transforms) >= 1
    /\ (\E i \in 1..Len(calls) : calls[i] = "reproject_texture")
           => Len(app.camera.eye_transforms) > 1

\* A step of Finish that replaces the camera by one of another variant.
SwitchStep ==
    /\ pc = "Drawn" /\ pc' = "Idle"
    /\ app'.camera.kind # app.camera.kind

\* C11: a camera-mode switch leaves the camera a freshly constructed one
\* for the view box and the viewport: a switch to Flat2D, whatever
\* happened before it, leaves the transform Camera::new builds.
C11_SwitchBuildsFreshCamera ==
    [][SwitchStep =>
          app'.camera = Camera_new(app'.ui_mode,
                                   app'.scene_metadata.view_box,
                                   viewport_size(app'))]_vars

\* C12: the camera variant changes only while Prepare dispatches events.
C12_SwitchDeferredToPrepare ==
    [][Camera_mode(app'.camera) # Camera_mode(app.camera)
          => pc = "HandleEvents" /\ pc' = "HandleEvents"]_vars

\* C12, amended: Build, Draw and Composite of a frame use the camera
\* variant and the window size the frame was prepared with; the window size
\* changes only while Prepare dispatches events, the camera variant then or
\* in Finish, which applies the UI's mode switch after the frame is drawn.
C12_SwitchAppliedAtFinish ==
    /\ [](FrameInFlight =>
              (Unwrap(app.render_transform).kind = "Perspective"
                   <=> app.camera.kind = "ThreeD"))
    /\ [][/\ FrameInFlight /\ pc' # "Idle" =>
                /\ Camera_mode(app'.camera) = Camera_mode(app.camera)
                /\ app'.window_size = app.window_size
          /\ app'.window_size # app.window_size =>
                pc = "HandleEvents" /\ pc' = "HandleEvents"
          /\ Camera_mode(app'.camera) # Camera_mode(app.camera) =>
                \/ pc = "HandleEvents" /\ pc' = "HandleEvents"
                \/ pc = "Drawn" /\ pc' = "Idle"]_vars

C12_Witness ==
    /\ pc = "Idle"
    /\ app.window_size.logical_size = 200
    /\ IsSome(app.render_transform)
    /\ Unwrap(app.render_transform).kind = "Perspective"
    /\ Unwrap(app.render_transform).scene_transform.viewport.x = 200
    /\ app.camera.kind = "TwoD"
    /\ app.camera.transform.viewport.x = 400

\* A step of the dispatcher that handles the recorded input e.
Dispatched(e) ==
    /\ DispatchStep
    /\ last_event' = Some(e)

\* C13: on a Perspective3D camera a key-down of w, s (a, d) sets the
\* forward (sideways) velocity to the speed with the sign of that key and a
\* key-up of either sets it to 0, whatever it was; the other axis is kept.
C13_VelocityFollowsLastKey ==
    [][\A e \in KeyEvents :
          Dispatched(e) /\ app.camera.kind = "ThreeD"
             => LET speed == CAMERA_VELOCITY
                                 \div scale_factor_for_view_box(
                                          app.scene_metadata.view_box)
                    value == IF e.type = "KeyUp" THEN 0
                             ELSE IF e.keycode \in {"w", "a"} THEN -speed
                             ELSE speed
                    new == app'.camera.velocity
                    old == app.camera.velocity
                IN /\ speed > 0
                   /\ e.keycode \in {"w", "s"} => new.z = value /\ new.x = old.x
                   /\ e.keycode \in {"a", "d"} => new.x = value /\ new.z = old.z
                   /\ app'.dirty]_vars

C13_Witness ==
    /\ pc = "HandleEvents"
    /\ app.camera.kind = "ThreeD"
    /\ last_event = Some(Traced(KeyUp("w")))
    /\ app.camera.velocity = Zero
    /\ app.camera.position.z > 0
    /\ app.camera.position.x < 0

\* The UI event a mouse-down or mouse-drag e is converted to in session a.
Converted(e, a) ==
    LET absolute == e.position * a.window_size.backing_scale_factor
    IN [type |-> e.type,
        position |-> [absolute |-> absolute,
                      relative |-> absolute - a.last_mouse_position]]

\* C14: the list starts empty, every event dispatched is recorded, a
\* mouse-down or mouse-drag appends its UI event to the end of the list and
\* moves the last mouse position, any other event leaves the list as it is,
\* and the list is what Prepare puts in the frame.
C14_ReturnsMouseEventsInOrder ==
    /\ [](\A i \in 1..Len(ui_events) :
              ui_events[i].type \in {"MouseDown", "MouseDragged"})
    /\ [][/\ pc = "Idle" /\ pc' = "HandleEvents" => ui_events' = <<>>
          /\ DispatchStep =>
                /\ last_event' # None
                /\ LET e == Unwrap(last_event')
                   IN IF e.type \in {"MouseDown", "MouseDragged"}
                      THEN /\ ui_events' = Append(ui_events, Converted(e, app))
                           /\ app'.last_mouse_position
                                  = Converted(e, app).position.absolute
                      ELSE ui_events' = ui_events
          /\ pc = "HandleEvents" /\ pc' = "Prepared" =>
                Unwrap(app'.current_frame).ui_events = ui_events]_vars

C14_Witness ==
    /\ pc = "Prepared"
    /\ Unwrap(app.current_frame).ui_events
           = << [type |-> "MouseDragged",
                 position |-> [absolute |-> 2, relative |-> 2]],
                [type |-> "MouseDown",
                 position |-> [absolute |-> 0, relative |-> -2]] >>

\* C15: a mouse-drag appends one UI drag event and marks the session
\* dirty, in every camera mode and whatever the mouselook flag is.
C15_DragEmitsAndDirties ==
    [][\A e \in MouseEvents :
          Dispatched(e) /\ e.type = "MouseDragged" =>
              /\ Len(ui_events') = Len(ui_events) + 1
              /\ ui_events'[Len(ui_events')].type = "MouseDragged"
              /\ app'.dirty
              /\ app'.camera = app.camera]_vars

C15_Witness ==
    /\ pc = "HandleEvents"
    /\ last_event = Some(Traced(MouseDragged(1)))
    /\ app.camera.kind = "ThreeD"
    /\ app.mouselook_enabled
    /\ ui_events # <<>>
    /\ app.dirty

\* C16: a mouse-move adds the pixel delta times the rotation speed to yaw
\* and pitch when mouselook is on and the camera is 3D; with mouselook off or
\* a 2D camera it leaves the camera as it is; it never adds a UI event.
C16_MouseMoveOnlyLooks ==
    [][\A e \in LookEvents :
          Dispatched(e) /\ e.type = "MouseMoved" =>
              LET delta == e.position * app.window_size.backing_scale_factor
                               - app.last_mouse_position
              IN /\ ui_events' = ui_events
                 /\ IF app.mouselook_enabled /\ app.camera.kind = "ThreeD"
                    THEN app'.camera =
                           [app.camera EXCEPT
                              !.yaw = @ + delta * MOUSELOOK_ROTATION_SPEED,
                              !.pitch = @ + delta * MOUSELOOK_ROTATION_SPEED]
                    ELSE app'.camera = app.camera]_vars

C16_Witness ==
    /\ pc = "HandleEvents"
    /\ last_event = Some(Traced(MouseMoved(1)))
    /\ app.mouselook_enabled
    /\ app.camera.kind = "ThreeD"
    /\ app.camera.yaw = 2 * MOUSELOOK_ROTATION_SPEED
    /\ ui_events = <<>>

\* The cycle of UI visibility, written out.
TabCycle == [None |-> "Stats", Stats |-> "All", All |-> "None"]

\* C17: a Tab key-down moves UI visibility one step along
\* None -> Stats -> All -> None and changes nothing else, three steps lead
\* back to the start, and no other step changes UI visibility.
C17_TabCyclesVisibility ==
    /\ \A v \in UIVisibility : TabCycle[TabCycle[TabCycle[v]]] = v
    /\ [][/\ Dispatched(Traced(KeyDown("Tab"))) =>
                app' = [app EXCEPT !.options_ui = TabCycle[@]]
          /\ app'.options_ui # app.options_ui =>
                Dispatched(Traced(KeyDown("Tab")))]_vars

C17_Witness ==
    /\ pc = "HandleEvents"
    /\ last_event = Some(Traced(KeyDown("Tab")))
    /\ app.options_ui = "None"
    /\ ~app.should_exit

\* C18: a Quit or Escape event sets the exit flag and marks the session
\* dirty, the events dispatched after it in the batch are still applied,
\* and no step clears the exit flag.
C18_ExitFlagSetAndKept ==
    [][/\ \A e \in {Traced(Quit), Traced(KeyDown("Escape"))} :
             Dispatched(e) => app' = [app EXCEPT !.should_exit = TRUE,
                                                 !.dirty = TRUE]
       /\ app.should_exit /\ Dispatched(Traced(KeyDown("Tab"))) =>
             app'.options_ui = TabCycle[app.options_ui]
       /\ app.should_exit => app'.should_exit]_vars

\* A Tab dispatched after a Quit or Escape of the same batch (the dirty mark
\* is cleared at the start of each batch and set by neither Tab nor F1).
C18_Witness ==
    /\ pc = "HandleEvents"
    /\ last_event = Some(Traced(KeyDown("Tab")))
    /\ app.should_exit
    /\ app.dirty
    /\ app.options_ui = "All"

\* The events of DropEvents no arm of the dispatcher accepts in session a: a
\* key without an arm, a mouse move while mouselook is off, a user event
\* with a foreign id or an epoch other than the session's.
Unrecognized(e, a) ==
    \/ e.type \in {"KeyDown", "KeyUp"} /\ e.keycode = "F1"
    \/ e.type = "MouseMoved" /\ ~a.mouselook_enabled
    \/ e.type = "User" /\ e.message_type # expire_message_event_id
    \/ e.type = "User" /\ e.message_data # a.message_epoch

\* C19: an unrecognized event changes nothing in the session and adds
\* nothing to the UI events.
C19_UnrecognizedDropped ==
    [][\A e \in DropEvents :
          Dispatched(e) /\ Unrecognized(e, app) =>
              /\ app' = app
              /\ ui_events' = ui_events]_vars

C19_Witness ==
    /\ pc = "HandleEvents"
    /\ last_event = Some(User(expire_message_event_id, 0, 0))
    /\ app.message_epoch = 1
    /\ app.ui_message # ""

\* Frames whose builds report one of several durations, over an event that
\* is dropped and one that makes a 3D camera a VR one.
BuildTimes == {1, 2}

StreamEvents == {KeyDown("F1"), SetEyeTransforms(<<1, 2>>)}

NextStream ==
    \/ BeginPrepare
    \/ \E e \in StreamEvents : HandleInput(e)
    \/ HandleQueued
    \/ EndPrepareWith(BuildTimes)
    \/ Draw
    \/ Composite
    \/ Finish
    \/ TimerFire

StreamSpec == Init /\ [][NextStream]_vars

\* Sessions constructed with each background, over events that take a 3D
\* camera into VR and back.
BackgroundColors == {"Light", "Dark", "Transparent"}

EnvironmentEvents == {SetEyeTransforms(<<1>>), SetEyeTransforms(<<1, 2>>)}

NextEnvironment == MainThread(EnvironmentEvents) \/ TimerFire

EnvironmentSpec == InitWith(BackgroundColors) /\ [][NextEnvironment]_vars

\* Frames whose UI asks for screenshots at two paths, Tab showing and
\* hiding the UI.
ShotActions ==
    {UIAction("None", 0), TakeScreenshot("a.png"), TakeScreenshot("b.png")}

ShotEvents == {KeyDown("Tab")}

NextShot == MainThreadWith(ShotEvents, ShotActions) \/ TimerFire

ShotSpec == Init /\ [][NextShot]_vars

\* Frames with the I/O that fails: a scene that cannot be loaded, a
\* screenshot that cannot be written.
IOActions == {UIAction("None", 0), TakeScreenshot(Unwritable)}

IOEvents == {OpenSVG(Unreadable)} \cup {OpenSVG(scene) : scene \in Scenes}

NextIO == MainThreadWith(IOEvents, IOActions) \/ TimerFire

IOSpec == Init /\ [][NextIO]_vars

\* Frames whose UI returns every kind of action, rotations to every angle
\* of up to MaxTheta quarter turns, over a zoom gesture and Tab.
Thetas == -MaxTheta..MaxTheta

AllActions ==
    {UIAction("None", 0), UIAction("ModelChanged", 0), UIAction("ZoomIn", 0),
     UIAction("ZoomOut", 0), TakeScreenshot("a.png")}
    \cup {UIAction("Rotate", theta) : theta \in Thetas}

ActionEvents == {KeyDown("Tab"), Zoom(1, 1), KeyDown("w")}

NextAction == MainThreadWith(ActionEvents, AllActions) \/ TimerFire

ActionSpec == Init /\ [][NextAction]_vars

\* Frames over the events that change the camera.
DirtyEvents ==
    {Zoom(1, 1), Look(1, 1), SetEyeTransforms(<<1, 2>>), KeyDown("w")}

NextDirty == MainThread(DirtyEvents) \/ TimerFire

DirtySpec == Init /\ [][NextDirty]_vars

\* The step in which prepare_frame returns.
PrepareReturns == pc = "HandleEvents" /\ pc' = "Prepared"

\* C20: Prepare returns 2 exactly when the camera left by the frame's events
\* is in VR mode and 1 otherwise, and its one clear is transparent when it
\* returns 2 and the background color when it returns 1.
C20_SceneCountFollowsCamera ==
    [][PrepareReturns =>
          /\ scene_count' \in {1, 2}
          /\ (scene_count' = 2) <=> (Camera_mode(app.camera) = "VR")
          /\ Camera_mode(app'.camera) = Camera_mode(app.camera)
          /\ calls' = IF scene_count' = 2
                      THEN <<"clear_transparent">>
                      ELSE <<"clear_background">>]_vars

\* A camera built for the 3D mode that an event of the frame made a VR one.
C20_Witness ==
    /\ pc = "Prepared"
    /\ app.ui_mode = "ThreeD"
    /\ Camera_mode(app.camera) = "VR"
    /\ scene_count = 2
    /\ calls = <<"clear_transparent">>

\* The step in which draw_scene runs.
DrawStep == pc = "Prepared" /\ pc' = "Drawn"

\* The render_command calls among the renderer calls cs, in order.
Forwarded(cs) ==
    SelectSeq(cs, LAMBDA c : c \in {"AddFills", "AddTiles", "Finish"})

\* C21: the Build of a frame replaces the stream by a fresh one; the Draw
\* of the frame forwards each of its commands once, in the order of the
\* stream, and leaves it empty, so that another Draw would forward nothing;
\* no other step reads or changes the stream.
C21_StreamIsSingleUse ==
    /\ [](pc = "Prepared" =>
             render_vector_scene_calls(draw_scene(app))
                 = <<"begin_scene", "end_scene">>)
    /\ [](pc \notin {"Prepared"} /\ IsSome(app.render_command_stream) =>
             pulled(app) = <<>>)
    /\ [][/\ PrepareReturns =>
                \E t \in BuildTimes :
                    pulled(app') = << [type |-> "AddFills"],
                                     [type |-> "AddTiles"],
                                     [type |-> "Finish", build_time |-> t] >>
          /\ DrawStep =>
                /\ Forwarded(calls') = [i \in 1..Len(pulled(app)) |->
                                           pulled(app)[i].type]
                /\ Forwarded(calls) = <<>>
                /\ pulled(app') = <<>>
          /\ ~PrepareReturns /\ ~DrawStep =>
                /\ app'.render_command_stream = app.render_command_stream
                /\ Forwarded(calls') = Forwarded(calls) \/ calls' = <<>>]_vars

C21_Witness ==
    /\ pc = "Drawn"
    /\ Forwarded(calls) = <<"AddFills", "AddTiles", "Finish">>
    /\ app.render_command_stream = Some(<<>>)
    /\ app.build_time = Some(2)
    /\ scene_index = 2

\* The step in which composite_scene runs, and the renderer calls a step
\* adds to those of the frame.
CompositeStep == pc = "Drawn" /\ scene_index' = scene_index + 1

Issued == SubSeq(calls', Len(calls) + 1, Len(calls'))

GroundPasses(cs) == SelectSeq(cs, LAMBDA c : c = "draw_environment")

\* C22: Draw issues the ground pass as its first call, before the scene
\* content, unless the camera is in VR mode, the background is transparent
\* or the frame's transform is 2D; a Composite that reprojects issues it
\* unless the background is transparent.
C22_EnvironmentPass ==
    [][/\ DrawStep =>
            LET skipped == \/ Camera_mode(app.camera) = "VR"
                           \/ app.background_color = "Transparent"
                           \/ Unwrap(app.current_frame).transform.kind
                                  = "Transform2D"
            IN /\ skipped => /\ GroundPasses(Issued) = <<>>
                             /\ Issued[1] = "begin_scene"
               /\ ~skipped => /\ Len(GroundPasses(Issued)) = 1
                              /\ Issued[1] = "draw_environment"
                              /\ Issued[2] = "begin_scene"
       /\ CompositeStep /\ Camera_mode(app.camera) = "VR" =>
            Len(GroundPasses(Issued))
                = IF app.background_color = "Transparent" THEN 0 ELSE 1]_vars

C22_Witness ==
    /\ pc = "Drawn"
    /\ Camera_mode(app.camera) = "VR"
    /\ app.background_color = "Dark"
    /\ calls = <<"clear_transparent", "begin_scene", "AddFills", "AddTiles",
                 "Finish", "end_scene", "clear_background",
                 "draw_environment", "reproject_texture">>

\* The step in which finish_drawing_frame runs to its end.
FinishStep == pc = "Drawn" /\ pc' = "Idle"

Captures(cs) == SelectSeq(cs, LAMBDA c : c = "save_buffer")

\* C23: the Finish that receives TakeScreenshot(path) only records the
\* path; the next Finish captures to that path once, before its own UI
\* update (whose action may record another path), and leaves nothing
\* pending otherwise; no other step captures or changes what is pending.
C23_ScreenshotDeferredOneFrame ==
    [][/\ FinishStep =>
            /\ calls' = IF IsSome(app.pending_screenshot_path)
                        THEN <<"read_pixels_from_default_framebuffer",
                               "save_buffer",
                               Unwrap(app.pending_screenshot_path)>>
                        ELSE <<>>
            /\ app'.pending_screenshot_path
                  = IF last_event' # None
                    THEN Some(Unwrap(last_event').path)
                    ELSE None
       /\ ~FinishStep =>
            /\ app'.pending_screenshot_path = app.pending_screenshot_path
            /\ Len(Captures(calls')) <= Len(Captures(calls))]_vars

C23_Witness ==
    /\ pc = "Idle"
    /\ calls = <<"read_pixels_from_default_framebuffer", "save_buffer", "a.png">>
    /\ app.pending_screenshot_path = Some("b.png")
    /\ last_event = Some(TakeScreenshot("b.png"))

\* C24: a scene that fails to load or a screenshot that fails to be written
\* never stops the pipeline: the frame goes on to Finish and back to Idle.
C24_IOFailureNeverAborts == pc # "Panicked"

\* C25: on the session about to receive the UI's action, None changes
\* nothing, ModelChanged only sets dirty, and ZoomIn, ZoomOut and Rotate
\* change at most the transform of a 2D camera and the dirty flag, leaving
\* a 3D camera (velocity and eye transforms included) as it is.
C25_ActionHasOnlyItsEffect ==
    pc = "Drawn" =>
        \A ui_action \in AllActions :
            LET r == handle_ui_action(app, ui_action)
            IN CASE ui_action.kind = "None" -> r = app
                 [] ui_action.kind = "ModelChanged" ->
                      r = [app EXCEPT !.dirty = TRUE]
                 [] ui_action.kind \in {"ZoomIn", "ZoomOut", "Rotate"} ->
                      IF app.camera.kind = "TwoD"
                      THEN [r EXCEPT
                              !.camera.transform = app.camera.transform,
                              !.dirty = app.dirty] = app
                      ELSE r = app
                 [] OTHER -> TRUE

\* A frame about to finish on a 2D camera that the zoom-out button of an
\* earlier frame has scaled, and that nothing has dirtied since.
C25_Witness ==
    /\ pc = "Drawn"
    /\ app.camera.kind = "TwoD"
    /\ Len(app.camera.transform.ops) = 3
    /\ app.camera.transform.ops[2]
           = [op |-> "scale", by |-> 10 - CAMERA_ZOOM_AMOUNT_2D]
    /\ ~app.dirty
    /\ handle_ui_action(app, UIAction("ModelChanged", 0)).dirty

\* Two transforms with the same matrix.
SameTransform(t, u) ==
    LET m == Transform2D_matrix(t)
        n == Transform2D_matrix(u)
    IN /\ m.m11 * n.den = n.m11 * m.den /\ m.m12 * n.den = n.m12 * m.den
       /\ m.m21 * n.den = n.m21 * m.den /\ m.m22 * n.den = n.m22 * m.den
       /\ m.x * n.den = n.x * m.den /\ m.y * n.den = n.y * m.den

\* The 2D transform after Rotate(theta) once, and after it twice.
RotatedOnce(theta) ==
    handle_ui_action(app, UIAction("Rotate", theta)).camera.transform

RotatedTwice(theta) ==
    handle_ui_action(handle_ui_action(app, UIAction("Rotate", theta)),
                     UIAction("Rotate", theta)).camera.transform

\* C26 as stated: for every 2D transform and every theta, Rotate(theta)
\* applied twice gives the transform it gives once, and the rotation of
\* that transform is theta.
C26_RotateIdempotentToTheta ==
    app.camera.kind = "TwoD" =>
        \A theta \in Thetas :
            /\ SameTransform(RotatedOnce(theta), RotatedTwice(theta))
            /\ Transform2D_rotation(RotatedOnce(theta)) = theta

\* C26 amended: Rotate(theta) applied twice gives the transform it gives
\* once, and the rotation of that transform is theta up to whole turns:
\* theta itself when theta is more than minus a half turn and at most a
\* half turn.
C26_RotateIdempotentModTurn ==
    app.camera.kind = "TwoD" =>
        \A theta \in Thetas :
            /\ SameTransform(RotatedOnce(theta), RotatedTwice(theta))
            /\ (Transform2D_rotation(RotatedOnce(theta)) - theta) % 4 = 0
            /\ Transform2D_rotation(RotatedOnce(theta)) \in -1..2

\* A transform the UI has rotated to three quarter turns: its rotation is
\* minus a quarter turn, and rotating to three quarters again turns it by a
\* whole turn.
C26_Witness ==
    /\ pc = "Idle"
    /\ app.camera.kind = "TwoD"
    /\ Len(app.camera.transform.ops) = 3
    /\ app.camera.transform.ops[2] = [op |-> "rotate", by |-> 3]
    /\ Transform2D_rotation(app.camera.transform) = -1
    /\ RotatedTwice(3).ops[5] = [op |-> "rotate", by |-> 4]

\* C27: an event that changes the camera leaves the dirty flag set. (The
\* flag is cleared when the batch starts and never within it, and a batch
\* may end after any event, so this is the flag after the batch.)
C27_CameraChangeMarksDirty ==
    [][DispatchStep /\ app'.camera # app.camera => app'.dirty]_vars

\* The mouse-downs among the UI events of the frame being finished.
MouseDowns ==
    Len(SelectSeq(Unwrap(app.current_frame).ui_events,
                  LAMBDA e : e.type = "MouseDown"))

\* C28: a Finish that leaves a 2D camera (switched to or not) leaves the
\* mouselook flag as it was; one that leaves a 3D camera toggles the flag
\* once per mouse-down the UI did not handle: all of them when the UI is
\* not updated, and none when the frame has none, switch or no switch. No
\* other step changes the flag.
C28_MouselookTogglesIn3D ==
    [][/\ FinishStep =>
            IF app'.camera.kind = "TwoD"
            THEN app'.mouselook_enabled = app.mouselook_enabled
            ELSE /\ MouseDowns = 0 =>
                      app'.mouselook_enabled = app.mouselook_enabled
                 /\ app.options_ui # "All" =>
                      app'.mouselook_enabled
                         = (app.mouselook_enabled <=> (MouseDowns % 2 = 0))
       /\ ~FinishStep =>
            app'.mouselook_enabled = app.mouselook_enabled]_vars

\* Mouselook switched on with a 3D camera and kept through a switch to 2D.
C28_Witness ==
    /\ pc = "Idle"
    /\ app.mouselook_enabled
    /\ app.camera.kind = "TwoD"

\* C29: in a VR frame Prepare hands the side framebuffer to the renderer,
\* Draw hands that same framebuffer back, every Composite that reprojects
\* finds it in the session, and it is there when Finish returns to Idle.
C29_SideFramebufferReturns ==
    [][/\ PrepareReturns /\ scene_count' = 2 =>
            /\ app'.scene_framebuffer = None
            /\ app'.dest_framebuffer.kind = "Other"
            /\ IsSome(app'.dest_framebuffer.framebuffer)
       /\ DrawStep /\ scene_count = 2 =>
            /\ IsSome(app'.scene_framebuffer)
            /\ app'.scene_framebuffer = app.dest_framebuffer.framebuffer
            /\ app'.dest_framebuffer.kind = "Default"
       /\ CompositeStep /\ composite_reprojects(app) =>
            /\ scene_count = 2
            /\ IsSome(app.scene_framebuffer)
            /\ app'.scene_framebuffer = app.scene_framebuffer
       /\ FinishStep /\ scene_count = 2 =>
            IsSome(app'.scene_framebuffer)]_vars

\* Back at Idle with a 2D camera, the side framebuffer of an earlier VR
\* frame still in the session.
C29_Witness ==
    /\ pc = "Idle"
    /\ IsSome(app.scene_framebuffer)
    /\ Camera_mode(app.camera) = "TwoD"
    /\ app.dest_framebuffer.kind = "Default"

\* C30: Draw stores the build time of the Finish command that ends the
\* stream of the frame's Build, whatever time an earlier frame left; no
\* other step changes it, so it is there, and that frame's, when
\* finish_drawing_frame unwraps it.
C30_BuildTimeIsThisFrames ==
    /\ [](pc = "Drawn" => IsSome(app.build_time))
    /\ [][/\ DrawStep =>
                /\ pulled(app) # <<>>
                /\ pulled(app)[Len(pulled(app))].type = "Finish"
                /\ app'.build_time
                       = Some(pulled(app)[Len(pulled(app))].build_time)
          /\ ~DrawStep => app'.build_time = app.build_time]_vars

\* A frame about to be drawn whose build reports another time than the one
\* the frame before it left in the session.
C30_Witness ==
    /\ pc = "Prepared"
    /\ app.build_time = Some(1)
    /\ pulled(app)[Len(pulled(app))] = [type |-> "Finish", build_time |-> 2]

====
